---- MODULE Spec2Model ----
(***************************************************************************)
(* Volunteer management API (api-voluntarios): the in-memory store         *)
(* FakeDatabase, the repository functions of crud.py, the request schemas  *)
(* of schemas.py and the request handlers of main.py.                      *)
(*                                                                         *)
(* Strings whose characters the code inspects (email, nome) are sequences  *)
(* of one-character strings; the other strings are atomic.                 *)
(***************************************************************************)
EXTENDS Integers, Sequences, FiniteSets, TLC

VARIABLES db, last, snap, nops, threads

vars == <<nops, db, last, snap, threads>>

(***************************************************************************)
(* Bounds of the exploration                                               *)
(***************************************************************************)
\* number of requests in a run
MaxOps == 3
\* number of store-changing calls before the read functions of crud.py are
\* applied to the store
MaxStoreOps == 3
\* largest skip and limit crud.get_volunteers is applied with
MaxPage == 3

(***************************************************************************)
(* Python values                                                           *)
(***************************************************************************)
\* Optional[T]: None, or a value
None == [none |-> TRUE]

Some(x) == [none |-> FALSE, v |-> x]

\* bool(x) of an Optional[str] (atomic string): None and "" are falsy
Truthy(o) == (~o.none) /\ (o.v # "")

\* bool(x) of an Optional[str] (character sequence): None and "" are falsy
TruthySeq(o) == (~o.none) /\ (Len(o.v) > 0)

\* seq[start:stop] (no step), as CPython's PySlice_AdjustIndices computes it
PySliceIndex(i, n) ==
    IF i < 0 THEN (IF i + n < 0 THEN 0 ELSE i + n)
    ELSE (IF i > n THEN n ELSE i)

\* faulty variant of the slice: the element at stop is taken too
PySlice_inclusive(s, start, stop) ==
    LET n  == Len(s)
        lo == PySliceIndex(start, n)
        hi == PySliceIndex(stop + 1, n)
    IN  IF hi <= lo THEN <<>> ELSE SubSeq(s, lo + 1, hi)

PySlice(s, start, stop) ==
    LET n  == Len(s)
        lo == PySliceIndex(start, n)
        hi == PySliceIndex(stop, n)
    IN  IF hi <= lo THEN <<>> ELSE SubSeq(s, lo + 1, hi)

UpperLetters ==
    <<"A","B","C","D","E","F","G","H","I","J","K","L","M",
      "N","O","P","Q","R","S","T","U","V","W","X","Y","Z">>

LowerLetters ==
    <<"a","b","c","d","e","f","g","h","i","j","k","l","m",
      "n","o","p","q","r","s","t","u","v","w","x","y","z">>

Whitespace == {" ", "\t", "\n"}

UpperSet == {UpperLetters[i] : i \in 1..Len(UpperLetters)}

LowerOf ==
    [c \in UpperSet |->
        LowerLetters[CHOOSE i \in 1..Len(UpperLetters) : UpperLetters[i] = c]]

\* str.lower(), one character
LowerChar(c) == IF c \in UpperSet THEN LowerOf[c] ELSE c

\* str.lower()
StrLower(s) == [i \in 1..Len(s) |-> LowerChar(s[i])]

\* str.strip(): drops leading and trailing whitespace
StrStrip(s) ==
    LET keep == {i \in 1..Len(s) : s[i] \notin Whitespace}
    IN  IF keep = {} THEN <<>>
        ELSE LET lo == CHOOSE i \in keep : \A j \in keep : i <= j
                 hi == CHOOSE i \in keep : \A j \in keep : i >= j
             IN  SubSeq(s, lo, hi)

\* '@' in v
HasAt(s) == \E i \in 1..Len(s) : s[i] = "@"

(***************************************************************************)
(* models.py                                                               *)
(***************************************************************************)
Disponibilidade == {"manha", "tarde", "noite", "fim_de_semana", "flexivel"}

StatusVoluntario == {"ativo", "inativo", "pendente"}

\* attributes of a VolunteerInDB instance
VolunteerAttrs ==
    {"id", "nome", "email", "telefone", "cargo_pretendido",
     "disponibilidade", "status", "data_inscricao", "is_deleted"}

VolunteerInDB(id, nome, email, telefone, cargo, disp, status, data, deleted) ==
    [id |-> id, nome |-> nome, email |-> email, telefone |-> telefone,
     cargo_pretendido |-> cargo, disponibilidade |-> disp, status |-> status,
     data_inscricao |-> data, is_deleted |-> deleted]

\* VolunteerInDB.to_model: a VolunteerModel with the same nine fields
to_model(vol) ==
    [id |-> vol.id, nome |-> vol.nome, email |-> vol.email,
     telefone |-> vol.telefone, cargo_pretendido |-> vol.cargo_pretendido,
     disponibilidade |-> vol.disponibilidade, status |-> vol.status,
     data_inscricao |-> vol.data_inscricao, is_deleted |-> vol.is_deleted]

(***************************************************************************)
(* database.py: FakeDatabase                                               *)
(*   d.volunteers  self._volunteers, a dict: id -> VolunteerInDB           *)
(*   d.order       the insertion order of the dict's keys                  *)
(*   d.next_id     self._next_id                                           *)
(***************************************************************************)
\* initial_data of _initialize_data, without the ids
initial_data ==
    <<[nome |-> <<"J","o","ã","o"," ","S","i","l","v","a">>,
       email |-> <<"j","o","a","o","@","e","m","a","i","l",".","c","o","m">>,
       telefone |-> "(11) 99999-9999", cargo_pretendido |-> "Instrutor",
       disponibilidade |-> "manha", status |-> "ativo",
       data_inscricao |-> "2023-01-15", is_deleted |-> FALSE]>> \o
    <<[nome |-> <<"M","a","r","i","a"," ","S","a","n","t","o","s">>,
       email |-> <<"m","a","r","i","a","@","e","m","a","i","l",".","c","o","m">>,
       telefone |-> "(11) 98888-8888", cargo_pretendido |-> "Organizador",
       disponibilidade |-> "tarde", status |-> "ativo",
       data_inscricao |-> "2023-02-20", is_deleted |-> FALSE]>> \o
    <<[nome |-> <<"C","a","r","l","o","s"," ","O","l","i","v","e","i","r","a">>,
       email |-> <<"c","a","r","l","o","s","@","e","m","a","i","l",".","c","o","m">>,
       telefone |-> "(11) 97777-7777", cargo_pretendido |-> "Suporte",
       disponibilidade |-> "noite", status |-> "inativo",
       data_inscricao |-> "2023-03-10", is_deleted |-> FALSE]>> \o
    <<[nome |-> <<"A","n","a"," ","C","o","s","t","a">>,
       email |-> <<"a","n","a","@","e","m","a","i","l",".","c","o","m">>,
       telefone |-> "(11) 96666-6666", cargo_pretendido |-> "Instrutor",
       disponibilidade |-> "fim_de_semana", status |-> "pendente",
       data_inscricao |-> "2023-04-05", is_deleted |-> FALSE]>> \o
    <<[nome |-> <<"P","e","d","r","o"," ","R","o","c","h","a">>,
       email |-> <<"p","e","d","r","o","@","e","m","a","i","l",".","c","o","m">>,
       telefone |-> "(11) 95555-5555", cargo_pretendido |-> "Coordenador",
       disponibilidade |-> "flexivel", status |-> "ativo",
       data_inscricao |-> "2023-05-12", is_deleted |-> TRUE]>>

\* faulty variant of _get_next_id: the counter is not advanced
FakeDatabase_get_next_id_stuck(d) ==
    [db |-> d, ret |-> d.next_id]

\* FakeDatabase._get_next_id: returns the counter and advances it
FakeDatabase_get_next_id(d) ==
    [db |-> [d EXCEPT !.next_id = d.next_id + 1], ret |-> d.next_id]

\* self._volunteers[volunteer.id] = volunteer: a new key goes last, an
\* existing key keeps its place
DictSet(d, key, vol) ==
    [d EXCEPT
       !.volunteers = [k \in (DOMAIN d.volunteers) \cup {key} |->
                          IF k = key THEN vol ELSE d.volunteers[k]],
       !.order = IF key \in DOMAIN d.volunteers THEN d.order
                 ELSE Append(d.order, key)]

\* FakeDatabase._initialize_data, from row i of initial_data on
RECURSIVE FakeDatabase_initialize_data(_, _)
FakeDatabase_initialize_data(d, i) ==
    IF i > Len(initial_data) THEN d
    ELSE LET g   == FakeDatabase_get_next_id(d)
             row == initial_data[i]
             vol == VolunteerInDB(g.ret, row.nome, row.email, row.telefone,
                                  row.cargo_pretendido, row.disponibilidade,
                                  row.status, row.data_inscricao, row.is_deleted)
         IN  FakeDatabase_initialize_data(DictSet(g.db, vol.id, vol), i + 1)

\* FakeDatabase.__init__
FakeDatabase_init ==
    FakeDatabase_initialize_data(
        [volunteers |-> [k \in {} |-> None], order |-> <<>>, next_id |-> 1], 1)

\* FakeDatabase.get_all_volunteers: list(self._volunteers.values())
FakeDatabase_get_all_volunteers(d) ==
    [i \in 1..Len(d.order) |-> d.volunteers[d.order[i]]]

\* FakeDatabase.get_volunteer: self._volunteers.get(volunteer_id)
FakeDatabase_get_volunteer(d, volunteer_id) ==
    IF volunteer_id \in DOMAIN d.volunteers
    THEN Some(d.volunteers[volunteer_id])
    ELSE None

\* faulty variant of add_volunteer: the record is stored under the id its
\* caller gave it
FakeDatabase_add_volunteer_caller_id(d, volunteer) ==
    LET g   == FakeDatabase_get_next_id(d)
        vol == volunteer
    IN  [db |-> DictSet(g.db, vol.id, vol), ret |-> vol]

\* FakeDatabase.add_volunteer
FakeDatabase_add_volunteer(d, volunteer) ==
    LET g   == FakeDatabase_get_next_id(d)
        vol == [volunteer EXCEPT !.id = g.ret]
    IN  [db |-> DictSet(g.db, vol.id, vol), ret |-> vol]

\* the loop body of update_volunteer: setattr when the attribute exists and
\* the value is not None
SetAttrs(vol, kwargs) ==
    [a \in DOMAIN vol |->
        IF a \in DOMAIN kwargs /\ a \in VolunteerAttrs /\ ~kwargs[a].none
        THEN kwargs[a].v ELSE vol[a]]

\* faulty variant of update_volunteer: the record is taken out of the dict
\* and stored again, which moves its key to the end
FakeDatabase_update_volunteer_reinsert(d, volunteer_id, kwargs) ==
    IF volunteer_id \notin DOMAIN d.volunteers
    THEN [db |-> d, ret |-> None]
    ELSE LET vol == SetAttrs(d.volunteers[volunteer_id], kwargs)
         IN  [db |-> [d EXCEPT !.volunteers[volunteer_id] = vol,
                               !.order = Append(SelectSeq(d.order,
                                                   LAMBDA k : k # volunteer_id),
                                                volunteer_id)],
              ret |-> Some(vol)]

\* FakeDatabase.update_volunteer(volunteer_id, **kwargs)
FakeDatabase_update_volunteer(d, volunteer_id, kwargs) ==
    IF volunteer_id \notin DOMAIN d.volunteers
    THEN [db |-> d, ret |-> None]
    ELSE LET vol == SetAttrs(d.volunteers[volunteer_id], kwargs)
         IN  [db |-> [d EXCEPT !.volunteers[volunteer_id] = vol],
              ret |-> Some(vol)]

\* FakeDatabase.delete_volunteer
FakeDatabase_delete_volunteer(d, volunteer_id) ==
    IF volunteer_id \notin DOMAIN d.volunteers
    THEN [db |-> d, ret |-> FALSE]
    ELSE [db |-> [d EXCEPT !.volunteers[volunteer_id].is_deleted = TRUE],
          ret |-> TRUE]

\* FakeDatabase.restore_volunteer
FakeDatabase_restore_volunteer(d, volunteer_id) ==
    IF volunteer_id \notin DOMAIN d.volunteers
    THEN [db |-> d, ret |-> None]
    ELSE LET nd == [d EXCEPT !.volunteers[volunteer_id].is_deleted = FALSE]
         IN  [db |-> nd, ret |-> Some(nd.volunteers[volunteer_id])]

\* faulty variant of email_exists: soft-deleted records count too
FakeDatabase_email_exists_any(d, email, exclude_id) ==
    \E k \in DOMAIN d.volunteers :
        /\ d.volunteers[k].email = email
        /\ (exclude_id.none \/ d.volunteers[k].id # exclude_id.v)

\* FakeDatabase.email_exists(email, exclude_id); exclude_id is an Optional
FakeDatabase_email_exists(d, email, exclude_id) ==
    \E k \in DOMAIN d.volunteers :
        /\ d.volunteers[k].email = email
        /\ ~d.volunteers[k].is_deleted
        /\ (exclude_id.none \/ d.volunteers[k].id # exclude_id.v)

(***************************************************************************)
(* schemas.py.  A request body is a function from the JSON keys it holds   *)
(* to Optional values (None is JSON null).  Field(...) constraints are     *)
(* checked on the raw value, then the field validator runs.                *)
(***************************************************************************)
LenBetween(x, lo, hi) == Len(x) >= lo /\ Len(x) <= hi

\* faulty variant of validate_email: the email is not lower-cased
VolunteerBase_validate_email_strip(v) ==
    IF ~HasAt(v) THEN [ok |-> FALSE, v |-> v]
    ELSE [ok |-> TRUE, v |-> StrStrip(v)]

\* VolunteerBase.validate_email
VolunteerBase_validate_email(v) ==
    IF ~HasAt(v) THEN [ok |-> FALSE, v |-> v]
    ELSE [ok |-> TRUE, v |-> StrLower(StrStrip(v))]

\* VolunteerUpdate.validate_email; v is an Optional
VolunteerUpdate_validate_email(v) ==
    IF ~v.none
    THEN IF ~HasAt(v.v) THEN [ok |-> FALSE, v |-> v]
         ELSE [ok |-> TRUE, v |-> Some(StrLower(StrStrip(v.v)))]
    ELSE [ok |-> TRUE, v |-> v]

\* VolunteerBase.validate_nome
VolunteerBase_validate_nome(v) ==
    IF Len(StrStrip(v)) = 0 THEN [ok |-> FALSE, v |-> v]
    ELSE [ok |-> TRUE, v |-> StrStrip(v)]

CreateFields ==
    {"nome", "email", "telefone", "cargo_pretendido", "disponibilidade", "status"}

\* VolunteerCreate(**body): the validated schema object, or a validation error
VolunteerCreate(body) ==
    LET has(k)   == k \in DOMAIN body /\ ~body[k].none
        status   == IF "status" \in DOMAIN body THEN body["status"]
                    ELSE Some("pendente")
    IN  IF /\ \A k \in CreateFields \ {"status"} : has(k)
           /\ LenBetween(body["nome"].v, 1, 100)
           /\ LenBetween(body["email"].v, 3, 100)
           /\ LenBetween(body["telefone"].v, 10, 20)
           /\ LenBetween(body["cargo_pretendido"].v, 1, 100)
           /\ body["disponibilidade"].v \in Disponibilidade
           /\ ~status.none
           /\ status.v \in StatusVoluntario
           /\ VolunteerBase_validate_email(body["email"].v).ok
           /\ VolunteerBase_validate_nome(body["nome"].v).ok
        THEN [ok |-> TRUE,
              v  |-> [nome |-> VolunteerBase_validate_nome(body["nome"].v).v,
                      email |-> VolunteerBase_validate_email(body["email"].v).v,
                      telefone |-> body["telefone"].v,
                      cargo_pretendido |-> body["cargo_pretendido"].v,
                      disponibilidade |-> body["disponibilidade"].v,
                      status |-> status.v]]
        ELSE [ok |-> FALSE, v |-> None]

\* faulty variant of the schema: unknown keys of the body are kept as
\* fields (id and is_deleted reach the dump)
VolunteerUpdate_extra_allowed(body) ==
    LET get(k)  == IF k \in DOMAIN body THEN body[k] ELSE None
        good(k, lo, hi) == get(k).none \/ LenBetween(get(k).v, lo, hi)
    IN  IF /\ good("nome", 1, 100)
           /\ good("email", 3, 100)
           /\ good("telefone", 10, 20)
           /\ good("cargo_pretendido", 1, 100)
           /\ (get("disponibilidade").none \/ get("disponibilidade").v \in Disponibilidade)
           /\ (get("status").none \/ get("status").v \in StatusVoluntario)
           /\ VolunteerUpdate_validate_email(get("email")).ok
        THEN [ok |-> TRUE,
              v  |-> [fields_set |-> DOMAIN body,
                      nome |-> get("nome"),
                      email |-> VolunteerUpdate_validate_email(get("email")).v,
                      telefone |-> get("telefone"),
                      cargo_pretendido |-> get("cargo_pretendido"),
                      disponibilidade |-> get("disponibilidade"),
                      status |-> get("status"),
                      id |-> get("id"),
                      is_deleted |-> get("is_deleted")]]
        ELSE [ok |-> FALSE, v |-> None]

\* VolunteerUpdate(**body): every field Optional, unknown keys are ignored;
\* fields_set is what model_dump(exclude_unset=True) keeps
VolunteerUpdate(body) ==
    LET get(k)  == IF k \in DOMAIN body THEN body[k] ELSE None
        good(k, lo, hi) == get(k).none \/ LenBetween(get(k).v, lo, hi)
    IN  IF /\ good("nome", 1, 100)
           /\ good("email", 3, 100)
           /\ good("telefone", 10, 20)
           /\ good("cargo_pretendido", 1, 100)
           /\ (get("disponibilidade").none \/ get("disponibilidade").v \in Disponibilidade)
           /\ (get("status").none \/ get("status").v \in StatusVoluntario)
           /\ VolunteerUpdate_validate_email(get("email")).ok
        THEN [ok |-> TRUE,
              v  |-> [fields_set |-> (DOMAIN body) \cap CreateFields,
                      nome |-> get("nome"),
                      email |-> VolunteerUpdate_validate_email(get("email")).v,
                      telefone |-> get("telefone"),
                      cargo_pretendido |-> get("cargo_pretendido"),
                      disponibilidade |-> get("disponibilidade"),
                      status |-> get("status")]]
        ELSE [ok |-> FALSE, v |-> None]

\* faulty variant of the dump: unset fields are kept, status with the
\* default of VolunteerBase
model_dump_with_defaults(volunteer_update) ==
    [k \in CreateFields |->
        IF k = "status" /\ k \notin volunteer_update.fields_set
        THEN Some("pendente") ELSE volunteer_update[k]]

\* volunteer_update.model_dump(exclude_unset=True)
model_dump_exclude_unset(volunteer_update) ==
    [k \in volunteer_update.fields_set |-> volunteer_update[k]]

(***************************************************************************)
(* crud.py.  Each operator returns the store after the call (db), the      *)
(* returned value (ret) and, where the function can raise, the message of  *)
(* the ValueError raised (exc).                                            *)
(***************************************************************************)
EmailJaCadastrado == "Email já cadastrado"

\* faulty variant of crud.get_volunteer: the is_deleted test is missing
crud_get_volunteer_any(d, volunteer_id) ==
    LET volunteer == FakeDatabase_get_volunteer(d, volunteer_id)
    IN  IF ~volunteer.none
        THEN Some(to_model(volunteer.v))
        ELSE None

\* crud.get_volunteer
crud_get_volunteer(d, volunteer_id) ==
    LET volunteer == FakeDatabase_get_volunteer(d, volunteer_id)
    IN  IF (~volunteer.none) /\ ~volunteer.v.is_deleted
        THEN Some(to_model(volunteer.v))
        ELSE None

\* filters.get(key)
FiltersGet(filters, key) ==
    IF key \in DOMAIN filters THEN filters[key] ELSE None

\* the body of the loop of crud.get_volunteers: TRUE when vol is appended
PassesFilters(vol, filters) ==
    /\ ~vol.is_deleted
    /\ ~(Truthy(FiltersGet(filters, "status"))
           /\ vol.status # filters["status"].v)
    /\ ~(Truthy(FiltersGet(filters, "cargo_pretendido"))
           /\ vol.cargo_pretendido # filters["cargo_pretendido"].v)
    /\ ~(Truthy(FiltersGet(filters, "disponibilidade"))
           /\ vol.disponibilidade # filters["disponibilidade"].v)

\* the loop of crud.get_volunteers over all_volunteers, from index i on
RECURSIVE FilterLoop(_, _, _, _)
FilterLoop(all_volunteers, filters, i, filtered_volunteers) ==
    IF i > Len(all_volunteers) THEN filtered_volunteers
    ELSE FilterLoop(all_volunteers, filters, i + 1,
                    IF PassesFilters(all_volunteers[i], filters)
                    THEN Append(filtered_volunteers, to_model(all_volunteers[i]))
                    ELSE filtered_volunteers)

\* filtered_volunteers of crud.get_volunteers, before the slice
filtered_volunteers(d, filters) ==
    FilterLoop(FakeDatabase_get_all_volunteers(d), filters, 1, <<>>)

\* faulty variant of crud.get_volunteers: the slice ends at limit
crud_get_volunteers_limit(d, skip, limit, filters) ==
    PySlice(filtered_volunteers(d, filters), skip, limit)

\* crud.get_volunteers(db, skip, limit, **filters)
crud_get_volunteers(d, skip, limit, filters) ==
    PySlice(filtered_volunteers(d, filters), skip, skip + limit)

\* faulty variant of crud.create_volunteer: the id is taken from the store
\* before the email is checked
crud_create_volunteer_id_first(d, volunteer, today) ==
    LET g == FakeDatabase_get_next_id(d)
    IN  IF FakeDatabase_email_exists(d, volunteer.email, None)
        THEN [db |-> g.db, exc |-> Some(EmailJaCadastrado), ret |-> None]
        ELSE LET vol_domain == VolunteerInDB(g.ret, volunteer.nome, volunteer.email,
                                   volunteer.telefone, volunteer.cargo_pretendido,
                                   volunteer.disponibilidade, volunteer.status,
                                   today, FALSE)
             IN  [db |-> DictSet(g.db, vol_domain.id, vol_domain), exc |-> None,
                  ret |-> Some(to_model(vol_domain))]

\* crud.create_volunteer; today is date.today()
crud_create_volunteer(d, volunteer, today) ==
    IF FakeDatabase_email_exists(d, volunteer.email, None)
    THEN [db |-> d, exc |-> Some(EmailJaCadastrado), ret |-> None]
    ELSE LET vol_domain == VolunteerInDB(0, volunteer.nome, volunteer.email,
                               volunteer.telefone, volunteer.cargo_pretendido,
                               volunteer.disponibilidade, volunteer.status,
                               today, FALSE)
             saved == FakeDatabase_add_volunteer(d, vol_domain)
         IN  [db |-> saved.db, exc |-> None, ret |-> Some(to_model(saved.ret))]

\* faulty variant of crud.update_volunteer: a soft-deleted record is updated
crud_update_volunteer_deleted(d, volunteer_id, volunteer_update) ==
    LET existing_vol == FakeDatabase_get_volunteer(d, volunteer_id)
    IN  IF existing_vol.none
        THEN [db |-> d, exc |-> None, ret |-> None]
        ELSE IF /\ TruthySeq(volunteer_update.email)
                /\ FakeDatabase_email_exists(d, volunteer_update.email.v,
                                             Some(volunteer_id))
        THEN [db |-> d, exc |-> Some(EmailJaCadastrado), ret |-> None]
        ELSE LET update_data == model_dump_exclude_unset(volunteer_update)
                 updated == FakeDatabase_update_volunteer(d, volunteer_id, update_data)
             IN  [db |-> updated.db, exc |-> None,
                  ret |-> IF updated.ret.none THEN None
                          ELSE Some(to_model(updated.ret.v))]

\* faulty variant of crud.update_volunteer: the email is checked before the
\* record is looked up
crud_update_volunteer_email_first(d, volunteer_id, volunteer_update) ==
    LET existing_vol == FakeDatabase_get_volunteer(d, volunteer_id)
    IN  IF /\ TruthySeq(volunteer_update.email)
           /\ FakeDatabase_email_exists(d, volunteer_update.email.v,
                                        Some(volunteer_id))
        THEN [db |-> d, exc |-> Some(EmailJaCadastrado), ret |-> None]
        ELSE IF existing_vol.none \/ existing_vol.v.is_deleted
        THEN [db |-> d, exc |-> None, ret |-> None]
        ELSE LET update_data == model_dump_exclude_unset(volunteer_update)
                 updated == FakeDatabase_update_volunteer(d, volunteer_id, update_data)
             IN  [db |-> updated.db, exc |-> None,
                  ret |-> IF updated.ret.none THEN None
                          ELSE Some(to_model(updated.ret.v))]

\* crud.update_volunteer
crud_update_volunteer(d, volunteer_id, volunteer_update) ==
    LET existing_vol == FakeDatabase_get_volunteer(d, volunteer_id)
    IN  IF existing_vol.none \/ existing_vol.v.is_deleted
        THEN [db |-> d, exc |-> None, ret |-> None]
        ELSE IF /\ TruthySeq(volunteer_update.email)
                /\ FakeDatabase_email_exists(d, volunteer_update.email.v,
                                             Some(volunteer_id))
        THEN [db |-> d, exc |-> Some(EmailJaCadastrado), ret |-> None]
        ELSE LET update_data == model_dump_exclude_unset(volunteer_update)
                 updated == FakeDatabase_update_volunteer(d, volunteer_id, update_data)
             IN  [db |-> updated.db, exc |-> None,
                  ret |-> IF updated.ret.none THEN None
                          ELSE Some(to_model(updated.ret.v))]

\* faulty variant: deleting an already deleted record succeeds again
crud_delete_volunteer_idempotent(d, volunteer_id) ==
    LET existing_vol == FakeDatabase_get_volunteer(d, volunteer_id)
    IN  IF existing_vol.none
        THEN [db |-> d, ret |-> FALSE]
        ELSE FakeDatabase_delete_volunteer(d, volunteer_id)

\* crud.delete_volunteer
crud_delete_volunteer(d, volunteer_id) ==
    LET existing_vol == FakeDatabase_get_volunteer(d, volunteer_id)
    IN  IF existing_vol.none \/ existing_vol.v.is_deleted
        THEN [db |-> d, ret |-> FALSE]
        ELSE FakeDatabase_delete_volunteer(d, volunteer_id)

\* faulty variant: only a deleted record can be restored
crud_restore_volunteer_deleted_only(d, volunteer_id) ==
    LET volunteer == FakeDatabase_get_volunteer(d, volunteer_id)
    IN  IF volunteer.none \/ ~volunteer.v.is_deleted
        THEN [db |-> d, ret |-> None]
        ELSE LET restored == FakeDatabase_restore_volunteer(d, volunteer_id)
             IN  [db |-> restored.db,
                  ret |-> IF restored.ret.none THEN None
                          ELSE Some(to_model(restored.ret.v))]

\* crud.restore_volunteer
crud_restore_volunteer(d, volunteer_id) ==
    LET volunteer == FakeDatabase_get_volunteer(d, volunteer_id)
    IN  IF volunteer.none
        THEN [db |-> d, ret |-> None]
        ELSE LET restored == FakeDatabase_restore_volunteer(d, volunteer_id)
             IN  [db |-> restored.db,
                  ret |-> IF restored.ret.none THEN None
                          ELSE Some(to_model(restored.ret.v))]

(***************************************************************************)
(* main.py: the request handlers.  A response is the status code and the   *)
(* body.  A handler receives the schema object FastAPI built from the      *)
(* request body.                                                           *)
(***************************************************************************)
\* faulty variant of the handler: every ValueError is answered 400
main_create_volunteer_400(d, volunteer, today) ==
    LET r == crud_create_volunteer(d, volunteer, today)
    IN  IF r.exc.none
        THEN [db |-> r.db, status_code |-> 201, body |-> r.ret]
        ELSE [db |-> r.db, status_code |-> 400, body |-> None]

\* create_volunteer, POST /voluntarios/
main_create_volunteer(d, volunteer, today) ==
    LET r == crud_create_volunteer(d, volunteer, today)
    IN  IF r.exc.none
        THEN [db |-> r.db, status_code |-> 201, body |-> r.ret]
        ELSE IF r.exc.v = EmailJaCadastrado
        THEN [db |-> r.db, status_code |-> 409, body |-> None]
        ELSE [db |-> r.db, status_code |-> 400, body |-> None]

\* read_volunteers, GET /voluntarios/; query holds the three Optional filter parameters
main_read_volunteers(d, skip, limit, query) ==
    IF \/ skip < 0
       \/ limit < 1
       \/ limit > 1000
       \/ ~(query.disponibilidade.none \/ query.disponibilidade.v \in Disponibilidade)
       \/ ~(query.status.none \/ query.status.v \in StatusVoluntario)
    THEN [db |-> d, status_code |-> 422, body |-> None]
    ELSE LET keys    == {k \in DOMAIN query : ~query[k].none}
             filters == [k \in keys |-> query[k]]
         IN  [db |-> d, status_code |-> 200,
              body |-> Some(crud_get_volunteers(d, skip, limit, filters))]

\* faulty variant of the handler: the record is fetched with the store's
\* restore_volunteer, which clears is_deleted on the way
main_read_volunteer_restore(d, volunteer_id) ==
    LET r == crud_restore_volunteer(d, volunteer_id)
    IN  IF r.ret.none
        THEN [db |-> r.db, status_code |-> 404, body |-> None]
        ELSE [db |-> r.db, status_code |-> 200, body |-> r.ret]

\* read_volunteer, GET /voluntarios/{volunteer_id}
main_read_volunteer(d, volunteer_id) ==
    LET volunteer == crud_get_volunteer(d, volunteer_id)
    IN  IF volunteer.none
        THEN [db |-> d, status_code |-> 404, body |-> None]
        ELSE [db |-> d, status_code |-> 200, body |-> volunteer]

\* update_volunteer, PUT /voluntarios/{volunteer_id}
main_update_volunteer(d, volunteer_id, volunteer_update) ==
    LET r == crud_update_volunteer(d, volunteer_id, volunteer_update)
    IN  IF ~r.exc.none
        THEN IF r.exc.v = EmailJaCadastrado
             THEN [db |-> r.db, status_code |-> 409, body |-> None]
             ELSE [db |-> r.db, status_code |-> 400, body |-> None]
        ELSE IF r.ret.none
        THEN [db |-> r.db, status_code |-> 404, body |-> None]
        ELSE [db |-> r.db, status_code |-> 200, body |-> r.ret]

\* delete_volunteer, DELETE /voluntarios/{volunteer_id}
main_delete_volunteer(d, volunteer_id) ==
    LET r == crud_delete_volunteer(d, volunteer_id)
    IN  IF ~r.ret
        THEN [db |-> r.db, status_code |-> 404, body |-> None]
        ELSE [db |-> r.db, status_code |-> 200, body |-> Some(volunteer_id)]

\* restore_volunteer, POST /voluntarios/{volunteer_id}/restore
main_restore_volunteer(d, volunteer_id) ==
    LET r == crud_restore_volunteer(d, volunteer_id)
    IN  IF r.ret.none
        THEN [db |-> r.db, status_code |-> 404, body |-> None]
        ELSE [db |-> r.db, status_code |-> 200, body |-> r.ret]

(***************************************************************************)
(* The requests the clients send                                           *)
(***************************************************************************)
\* an id no record ever gets (tests/test_main.py asks for it)
MissingId == 999

\* the ids the requests name: the seeded visible records 1 and 2, the seeded
\* deleted record 5, the first record created, and the missing id
RequestIds == {1, 2, 5, 6, MissingId}

\* date.today() on the day of the run
Today == "2024-06-01"

\* raw emails of the request bodies
RawEmails ==
    { <<"J","O","A","O","@","e","m","a","i","l",".","c","o","m">>,
      <<" ","m","a","r","i","a","@","e","m","a","i","l",".","c","o","m"," ">>,
      <<"p","e","d","r","o","@","e","m","a","i","l",".","c","o","m">>,
      <<"X","@","Y",".","c","o","m">> }

BaseCreateBody ==
    [nome |-> Some(<<" ","L","i","a"," ">>),
     email |-> Some(<<"X","@","Y",".","c","o","m">>),
     telefone |-> Some("(11) 94444-4444"),
     cargo_pretendido |-> Some("Instrutor"),
     disponibilidade |-> Some("manha"),
     status |-> Some("ativo")]

Without(body, key) == [k \in (DOMAIN body) \ {key} |-> body[k]]

\* POST bodies: the base body with each raw email, without a status, and
\* two bodies the schema rejects
CreateBodies ==
    {[BaseCreateBody EXCEPT !["email"] = Some(e)] : e \in RawEmails}
    \cup {Without(BaseCreateBody, "status"),
          [BaseCreateBody EXCEPT !["email"] = Some(<<"s","e","m","-","a","r","r","o","b","a">>)],
          [BaseCreateBody EXCEPT !["nome"] = Some(<<" ">>)]}

\* PUT bodies: partial payloads, JSON null, unknown keys, a rejected one
UpdateBodies ==
    {[email |-> Some(e)] : e \in RawEmails \ {<<"X","@","Y",".","c","o","m">>}}
    \cup {[k \in {} |-> None],
          [nome |-> Some(<<"N","o","m","e">>), cargo_pretendido |-> Some("Atualizado")],
          [status |-> Some("inativo"), disponibilidade |-> None,
           telefone |-> Some("(11) 92222-2222")],
          [id |-> Some(MissingId), is_deleted |-> Some(TRUE),
           disponibilidade |-> Some("flexivel")],
          [cargo_pretendido |-> Some("")]}

\* the filter parameters of GET /voluntarios/
Query(cargo_pretendido, disponibilidade, status) ==
    [cargo_pretendido |-> cargo_pretendido, disponibilidade |-> disponibilidade,
     status |-> status]

Queries ==
    {Query(None, None, None),
     Query(Some("Instrutor"), None, Some("ativo")),
     Query(Some(""), None, None),
     Query(None, None, Some("arquivado"))}

\* the keyword arguments crud.get_volunteers is checked with
CrudFilters ==
    {[k \in {} |-> None],
     [status |-> Some("ativo")],
     [cargo_pretendido |-> Some("Instrutor")],
     [disponibilidade |-> Some("manha")],
     [status |-> Some("ativo"), cargo_pretendido |-> Some("Instrutor"),
      disponibilidade |-> None],
     [cargo_pretendido |-> Some("")]}

\* skip and limit of GET /voluntarios/ (tests/test_main.py pages by 2)
Skips == {0, 10}

Limits == {0, 2}

\* the schema objects FastAPI builds from the request bodies
ParsedCreate == [body \in CreateBodies |-> VolunteerCreate(body)]

ParsedUpdate == [body \in UpdateBodies |-> VolunteerUpdate(body)]

\* FastAPI's answer to a request that fails validation: the handler is not run
RequestValidationError(d) == [db |-> d, status_code |-> 422, body |-> None]

(***************************************************************************)
(* The state machine: one request per step                                 *)
(*   db    the FakeDatabase instance database.db                           *)
(*   last  the last request and its response                               *)
(*   snap  history: the record as it was when DELETE last succeeded on it  *)
(*   nops  the number of requests served                                   *)
(*   threads  the worker threads of the thread pool that serve POST        *)
(*            requests step by step (idle when requests run one at a time) *)
(***************************************************************************)
Response(op, req, r) ==
    [op |-> op, req |-> req, status_code |-> r.status_code, body |-> r.body]

\* the two worker threads that serve one POST /voluntarios/ each
Threads == {"worker-1", "worker-2"}

\* a worker thread before it is given a request: its position in the code
\* and the local variables of create_volunteer, add_volunteer, _get_next_id
IdleThread ==
    [pc |-> "idle", volunteer |-> None, vol_domain |-> None,
     current_id |-> None, loaded |-> None, status_code |-> 0, body |-> None]

Init ==
    /\ db = FakeDatabase_init
    /\ threads = [t \in Threads |-> IdleThread]
    /\ last = [op |-> "start", req |-> None, status_code |-> 0, body |-> None]
    /\ snap = [k \in {} |-> None]
    /\ nops = 0

CreateVolunteer ==
    \E body \in CreateBodies :
        LET r == IF ParsedCreate[body].ok
                 THEN main_create_volunteer(db, ParsedCreate[body].v, Today)
                 ELSE RequestValidationError(db)
        IN  /\ nops < MaxOps
            /\ db' = r.db
            /\ last' = Response("create", body, r)
            /\ nops' = nops + 1
            /\ UNCHANGED <<snap, threads>>

ReadVolunteers ==
    \E skip \in Skips, limit \in Limits, query \in Queries :
        LET r == main_read_volunteers(db, skip, limit, query)
        IN  /\ nops < MaxOps
            /\ db' = r.db
            /\ last' = Response("list", [skip |-> skip, limit |-> limit, query |-> query], r)
            /\ nops' = nops + 1
            /\ UNCHANGED <<snap, threads>>

ReadVolunteer ==
    \E volunteer_id \in RequestIds :
        LET r == main_read_volunteer(db, volunteer_id)
        IN  /\ nops < MaxOps
            /\ db' = r.db
            /\ last' = Response("get", volunteer_id, r)
            /\ nops' = nops + 1
            /\ UNCHANGED <<snap, threads>>

UpdateVolunteer ==
    \E volunteer_id \in RequestIds, body \in UpdateBodies :
        LET r == IF ParsedUpdate[body].ok
                 THEN main_update_volunteer(db, volunteer_id, ParsedUpdate[body].v)
                 ELSE RequestValidationError(db)
        IN  /\ nops < MaxOps
            /\ db' = r.db
            /\ last' = Response("update", [id |-> volunteer_id, body |-> body], r)
            /\ nops' = nops + 1
            /\ UNCHANGED <<snap, threads>>

DeleteVolunteer ==
    \E volunteer_id \in RequestIds :
        LET r == main_delete_volunteer(db, volunteer_id)
        IN  /\ nops < MaxOps
            /\ db' = r.db
            /\ last' = Response("delete", volunteer_id, r)
            /\ nops' = nops + 1
            /\ snap' = IF r.status_code = 200
                       THEN [k \in (DOMAIN snap) \cup {volunteer_id} |->
                               IF k = volunteer_id THEN db.volunteers[volunteer_id]
                               ELSE snap[k]]
                       ELSE snap
            /\ UNCHANGED threads

RestoreVolunteer ==
    \E volunteer_id \in RequestIds :
        LET r == main_restore_volunteer(db, volunteer_id)
        IN  /\ nops < MaxOps
            /\ db' = r.db
            /\ last' = Response("restore", volunteer_id, r)
            /\ nops' = nops + 1
            /\ UNCHANGED <<snap, threads>>

Next ==
    \/ CreateVolunteer
    \/ ReadVolunteers
    \/ ReadVolunteer
    \/ UpdateVolunteer
    \/ DeleteVolunteer
    \/ RestoreVolunteer

Spec == Init /\ [][Next]_vars

(***************************************************************************)
(* crud.py called directly: up to MaxStoreOps successful store-changing    *)
(* calls build the stores on which the read functions crud.get_volunteer   *)
(* and crud.get_volunteers are then applied, for every argument of the     *)
(* bounded sets (in the properties).  Only db and nops change.             *)
(***************************************************************************)
StoreBecomes(d) ==
    /\ nops < MaxStoreOps
    /\ db' = d
    /\ nops' = nops + 1
    /\ UNCHANGED <<last, snap, threads>>

CrudCreate ==
    \E body \in CreateBodies :
        /\ ParsedCreate[body].ok
        /\ crud_create_volunteer(db, ParsedCreate[body].v, Today).exc.none
        /\ StoreBecomes(crud_create_volunteer(db, ParsedCreate[body].v, Today).db)

CrudUpdate ==
    \E volunteer_id \in RequestIds, body \in UpdateBodies :
        /\ ParsedUpdate[body].ok
        /\ crud_update_volunteer(db, volunteer_id, ParsedUpdate[body].v).exc.none
        /\ ~crud_update_volunteer(db, volunteer_id, ParsedUpdate[body].v).ret.none
        /\ StoreBecomes(crud_update_volunteer(db, volunteer_id, ParsedUpdate[body].v).db)

CrudDelete ==
    \E volunteer_id \in RequestIds :
        /\ crud_delete_volunteer(db, volunteer_id).ret
        /\ StoreBecomes(crud_delete_volunteer(db, volunteer_id).db)

CrudRestore ==
    \E volunteer_id \in RequestIds :
        /\ ~crud_restore_volunteer(db, volunteer_id).ret.none
        /\ StoreBecomes(crud_restore_volunteer(db, volunteer_id).db)

NextCrud ==
    \/ CrudCreate
    \/ CrudUpdate
    \/ CrudDelete
    \/ CrudRestore

SpecCrud == Init /\ [][NextCrud]_vars

(***************************************************************************)
(* Two POST /voluntarios/ requests served at the same time.  The handlers  *)
(* are plain def functions, which FastAPI runs on worker threads; the      *)
(* store has no lock, so the threads interleave between the reads and      *)
(* writes of the shared db.  One action is one read or one write of db by  *)
(* one thread, followed by the thread-local code up to its next access.    *)
(***************************************************************************)
\* thread t goes to position pc with some of its locals changed
ThreadStep(t, new) ==
    /\ threads' = [threads EXCEPT ![t] = new]
    /\ UNCHANGED <<last, snap, nops>>

\* the request arrives: FastAPI builds the VolunteerCreate and calls the handler
ThreadReceive(t) ==
    \E body \in CreateBodies :
        /\ threads[t].pc = "idle"
        /\ ParsedCreate[body].ok
        /\ ThreadStep(t, [threads[t] EXCEPT !.pc = "email_exists",
                                            !.volunteer = Some(ParsedCreate[body].v)])
        /\ UNCHANGED db

\* crud.create_volunteer up to the call of db.add_volunteer: the email
\* check reads the store; ValueError becomes 409 in the handler; otherwise
\* the VolunteerInDB is built
ThreadEmailExists(t) ==
    LET volunteer == threads[t].volunteer.v
    IN  /\ threads[t].pc = "email_exists"
        /\ IF FakeDatabase_email_exists(db, volunteer.email, None)
           THEN ThreadStep(t, [threads[t] EXCEPT !.pc = "done", !.status_code = 409])
           ELSE ThreadStep(t, [threads[t] EXCEPT
                    !.pc = "get_next_id",
                    !.vol_domain = Some(VolunteerInDB(0, volunteer.nome, volunteer.email,
                                            volunteer.telefone, volunteer.cargo_pretendido,
                                            volunteer.disponibilidade, volunteer.status,
                                            Today, FALSE))])
        /\ UNCHANGED db

\* _get_next_id: current_id = self._next_id
ThreadReadNextId(t) ==
    /\ threads[t].pc = "get_next_id"
    /\ ThreadStep(t, [threads[t] EXCEPT !.pc = "load_next_id",
                                        !.current_id = Some(db.next_id)])
    /\ UNCHANGED db

\* _get_next_id: self._next_id += 1, the load of the attribute
ThreadLoadNextId(t) ==
    /\ threads[t].pc = "load_next_id"
    /\ ThreadStep(t, [threads[t] EXCEPT !.pc = "store_next_id",
                                        !.loaded = Some(db.next_id)])
    /\ UNCHANGED db

\* _get_next_id: self._next_id += 1, the store of the sum
ThreadStoreNextId(t) ==
    /\ threads[t].pc = "store_next_id"
    /\ db' = [db EXCEPT !.next_id = threads[t].loaded.v + 1]
    /\ ThreadStep(t, [threads[t] EXCEPT !.pc = "add_volunteer"])

\* add_volunteer: volunteer.id = <returned id>; self._volunteers[volunteer.id]
\* = volunteer; the handler answers 201 with the record
ThreadAddVolunteer(t) ==
    LET vol == [threads[t].vol_domain.v EXCEPT !.id = threads[t].current_id.v]
    IN  /\ threads[t].pc = "add_volunteer"
        /\ db' = DictSet(db, vol.id, vol)
        /\ ThreadStep(t, [threads[t] EXCEPT !.pc = "done", !.status_code = 201,
                                            !.body = Some(to_model(vol))])

NextThreads ==
    \E t \in Threads :
        \/ ThreadReceive(t)
        \/ ThreadEmailExists(t)
        \/ ThreadReadNextId(t)
        \/ ThreadLoadNextId(t)
        \/ ThreadStoreNextId(t)
        \/ ThreadAddVolunteer(t)

SpecThreads == Init /\ [][NextThreads]_vars

(***************************************************************************)
(* Properties                                                              *)
(***************************************************************************)
Visible(d) == {k \in DOMAIN d.volunteers : ~d.volunteers[k].is_deleted}

Deleted(d) == {k \in DOMAIN d.volunteers : d.volunteers[k].is_deleted}

Ids(models) == {models[i].id : i \in 1..Len(models)}

\* C1: after any sequence of create, update, softDelete and restore requests
\* no two records with is_deleted = false have the same email.
C1_VisibleEmailsUnique ==
    \A i \in Visible(db), j \in Visible(db) :
        i # j => db.volunteers[i].email # db.volunteers[j].email

\* C2: a successful create returns an id strictly greater than every id
\* assigned before it (the ids of the store, which never drops a record), so
\* no id is reused, also not the id of a soft-deleted record.
C2_CreateIdFresh ==
    [][(last'.op = "create" /\ last'.status_code = 201)
         => /\ \A k \in DOMAIN db.volunteers : last'.body.v.id > k
            /\ last'.body.v.id \in DOMAIN db'.volunteers
            /\ \A k \in DOMAIN db.volunteers :
                  k \in DOMAIN db'.volunteers
                  /\ db'.volunteers[k].id = db.volunteers[k].id]_vars

\* C2 happens: a create succeeds after a DELETE soft-deleted a record
C2_Witness ==
    /\ last.op = "create"
    /\ last.status_code = 201
    /\ \E k \in DOMAIN snap : db.volunteers[k].is_deleted

\* C3: for every record with is_deleted = true, crud.get_volunteer answers
\* None as for an id that never existed (404 from the handler), no page of
\* crud.get_volunteers holds its id for any skip, limit and filters, and the
\* store's get_volunteer and get_all_volunteers still return it.
C3_DeletedHidden ==
    /\ \A k \in Deleted(db) :
          /\ crud_get_volunteer(db, k) = None
          /\ crud_get_volunteer(db, k) = crud_get_volunteer(db, MissingId)
          /\ main_read_volunteer(db, k).status_code = 404
          /\ main_read_volunteer(db, k).status_code
               = main_read_volunteer(db, MissingId).status_code
          /\ ~FakeDatabase_get_volunteer(db, k).none
          /\ FakeDatabase_get_volunteer(db, k).v.id = k
          /\ FakeDatabase_get_volunteer(db, k).v.is_deleted
          /\ \E i \in 1..Len(FakeDatabase_get_all_volunteers(db)) :
                /\ FakeDatabase_get_all_volunteers(db)[i].id = k
                /\ FakeDatabase_get_all_volunteers(db)[i].is_deleted
    /\ \A skip \in 0..MaxPage, limit \in 0..MaxPage, filters \in CrudFilters :
          Ids(crud_get_volunteers(db, skip, limit, filters)) \cap Deleted(db) = {}

\* C3 happens: a record that was seeded visible has been soft-deleted
C3_Witness ==
    \E k \in Deleted(db) : ~FakeDatabase_init.volunteers[k].is_deleted
\* the validated payload of the last POST or PUT request
LastCreate(l) == ParsedCreate[l.req].v

LastUpdate(l) == ParsedUpdate[l.req.body].v

\* C4: when a record soft-deleted by DELETE is restored, it is in the list
\* again and all its fields but is_deleted are as they were just before the
\* DELETE, whatever was requested in between; while it is deleted its fields
\* do not change.
C4_RestoreRoundTrip ==
    [][/\ \A k \in DOMAIN snap :
            (db.volunteers[k].is_deleted /\ db'.volunteers[k].is_deleted)
               => db'.volunteers[k] = db.volunteers[k]
       /\ (/\ last'.op = "restore"
           /\ last'.status_code = 200
           /\ last'.req \in DOMAIN snap
           /\ db.volunteers[last'.req].is_deleted)
            => /\ db'.volunteers[last'.req]
                    = [snap[last'.req] EXCEPT !.is_deleted = FALSE]
               /\ db.volunteers[last'.req]
                    = [snap[last'.req] EXCEPT !.is_deleted = TRUE]
               /\ last'.req \in Ids(crud_get_volunteers(db', 0, Len(db'.order),
                                                        [k \in {} |-> None]))
               /\ last'.req \notin Ids(crud_get_volunteers(db, 0, Len(db.order),
                                                          [k \in {} |-> None]))
               /\ \E i \in 1..Len(db'.order) :
                     crud_get_volunteers(db', i - 1, 1, [k \in {} |-> None])
                        = <<to_model([snap[last'.req] EXCEPT !.is_deleted = FALSE])>>]_vars

\* C4 happens: DELETE, another request, then a restore of the deleted record
C4_Witness ==
    /\ last.op = "restore"
    /\ last.status_code = 200
    /\ last.req \in DOMAIN snap
    /\ nops = 3
    /\ db.volunteers[last.req] = [snap[last.req] EXCEPT !.is_deleted = FALSE]

\* C5: a successful update sets exactly the fields the payload supplies with
\* a value other than None, to those values; every other field of the
\* record (id, is_deleted, data_inscricao too), every other record, the key
\* order and the id counter are unchanged.
C5_UpdateFrame ==
    [][(last'.op = "update" /\ last'.status_code = 200)
         => /\ DOMAIN db'.volunteers = DOMAIN db.volunteers
            /\ db'.order = db.order
            /\ db'.next_id = db.next_id
            /\ \A k \in DOMAIN db.volunteers, a \in VolunteerAttrs :
                  db'.volunteers[k][a] =
                     IF /\ k = last'.req.id
                        /\ a \in LastUpdate(last').fields_set
                        /\ ~LastUpdate(last')[a].none
                     THEN LastUpdate(last')[a].v
                     ELSE db.volunteers[k][a]]_vars

\* C5 happens: an update whose body holds a value, a JSON null and an
\* unset field has succeeded and changed the record
C5_Witness ==
    /\ last.op = "update"
    /\ last.status_code = 200
    /\ \E a \in LastUpdate(last).fields_set : LastUpdate(last)[a].none
    /\ \E a \in LastUpdate(last).fields_set : ~LastUpdate(last)[a].none
    /\ db.volunteers[last.req.id] # FakeDatabase_init.volunteers[last.req.id]

C7_DeletedEmailReusable ==
    [][(/\ last'.op = "create"
        /\ ParsedCreate[last'.req].ok
        /\ \E k \in Deleted(db) : db.volunteers[k].email = LastCreate(last').email
        /\ ~\E k \in Visible(db) : db.volunteers[k].email = LastCreate(last').email)
         => /\ last'.status_code = 201
            /\ last'.body.v.id \notin DOMAIN db.volunteers
            /\ last'.body.v.id \in Visible(db')
            /\ db'.volunteers[last'.body.v.id].email = LastCreate(last').email
            /\ DOMAIN db'.volunteers = (DOMAIN db.volunteers) \cup {last'.body.v.id}]_vars

\* C7 happens: a create with the email of a soft-deleted record succeeded
C7_Witness ==
    /\ last.op = "create"
    /\ last.status_code = 201
    /\ \E k \in Deleted(db) : db.volunteers[k].email = last.body.v.email

\* an email in normalized form: no upper-case letter, no whitespace at its ends
IsNormalized(email) ==
    /\ \A i \in 1..Len(email) : email[i] \notin UpperSet
    /\ Len(email) > 0 => (email[1] \notin Whitespace /\ email[Len(email)] \notin Whitespace)

\* equal up to letter case
SameIgnoringCase(a, b) ==
    /\ Len(a) = Len(b)
    /\ \A i \in 1..Len(a) : LowerChar(a[i]) = LowerChar(b[i])

\* C8: every email held in the store is in normalized (trimmed, lower-cased)
\* form, and a create whose email differs only in letter case from the
\* email of a visible record is refused as a duplicate.
C8_EmailsNormalized ==
    /\ \A k \in DOMAIN db.volunteers : IsNormalized(db.volunteers[k].email)
    /\ \A body \in CreateBodies, k \in Visible(db) :
          (ParsedCreate[body].ok
             /\ SameIgnoringCase(body["email"].v, db.volunteers[k].email))
            => ~crud_create_volunteer(db, ParsedCreate[body].v, Today).exc.none

\* C8 happens: an email sent with upper-case letters or blanks is stored
C8_Witness ==
    \E k \in DOMAIN db.volunteers :
        /\ last.op \in {"create", "update"}
        /\ last.status_code \in {200, 201}
        /\ last.body.v.id = k
        /\ LET sent == IF last.op = "create" THEN last.req["email"]
                       ELSE IF "email" \in DOMAIN last.req.body
                       THEN last.req.body["email"] ELSE None
           IN  (~sent.none) /\ sent.v # db.volunteers[k].email
Min(a, b) == IF a < b THEN a ELSE b

Max(a, b) == IF a > b THEN a ELSE b

\* C9: for skip >= 0 and limit >= 0, crud.get_volunteers returns the
\* contiguous run of the filtered visible records that starts at offset skip
\* and has length min(limit, max(0, n - skip)), n the number of filtered
\* visible records; it is empty when skip >= n.
C9_Pagination ==
    \A skip \in 0..MaxPage, limit \in 0..MaxPage, filters \in CrudFilters :
        LET all  == filtered_volunteers(db, filters)
            n    == Len(all)
            page == crud_get_volunteers(db, skip, limit, filters)
        IN  /\ Len(page) = Min(limit, Max(0, n - skip))
            /\ \A i \in 1..Len(page) : page[i] = all[skip + i]
            /\ skip >= n => page = <<>>

\* C9 happens: on a store changed by a call, one page is cut short by the
\* end of the records, one holds limit records and one starts past the end
C9_Witness ==
    /\ db # FakeDatabase_init
    /\ \E skip \in 1..MaxPage, limit \in 1..MaxPage, filters \in CrudFilters :
          LET n == Len(filtered_volunteers(db, filters))
          IN  /\ skip < n
              /\ n - skip < limit
              /\ Len(crud_get_volunteers(db, skip, limit, filters)) = n - skip
              /\ Len(crud_get_volunteers(db, 0, limit, filters)) = limit
              /\ n <= MaxPage
              /\ crud_get_volunteers(db, n, limit, filters) = <<>>

FilterKeys == {"status", "cargo_pretendido", "disponibilidade"}

\* the records the filters select: visible, and equal to the filter value
\* in every key supplied with a value other than None
Selected(d, filters) ==
    LET Matches(vol) ==
            /\ ~vol.is_deleted
            /\ \A key \in FilterKeys :
                  (key \in DOMAIN filters /\ ~filters[key].none)
                     => vol[key] = filters[key].v
        sel == SelectSeq(FakeDatabase_get_all_volunteers(d), Matches)
    IN  [i \in 1..Len(sel) |-> to_model(sel[i])]

\* C10: before the slice, crud.get_volunteers holds exactly the visible
\* records that equal the filter value in each of status, cargo_pretendido
\* and disponibilidade supplied with a value other than None; None or an
\* absent filter does not constrain.
C10_FiltersExact ==
    \A filters \in CrudFilters :
        filtered_volunteers(db, filters) = Selected(db, filters)

C12_RestoreAnyPresent ==
    [][(last'.op = "restore")
         => IF last'.req \in DOMAIN db.volunteers
            THEN /\ last'.status_code = 200
                 /\ ~crud_restore_volunteer(db, last'.req).ret.none
                 /\ db' = [db EXCEPT !.volunteers[last'.req].is_deleted = FALSE]
                 /\ ~db.volunteers[last'.req].is_deleted => db' = db
            ELSE /\ last'.status_code = 404
                 /\ db' = db
                 /\ last'.req >= db.next_id]_vars

\* C12 happens: a restore of an active record succeeded after a restore of
\* a deleted one
C12_Witness ==
    /\ last.op = "restore"
    /\ last.status_code = 200
    /\ last.req \in Visible(FakeDatabase_init)
    /\ last.req \notin DOMAIN snap
    /\ \E k \in Deleted(FakeDatabase_init) : ~db.volunteers[k].is_deleted

\* C13: the life of a record.  A key enters the store only in a successful
\* create, with is_deleted = FALSE; is_deleted goes from FALSE to TRUE only
\* in a successful DELETE of that id, and from TRUE to FALSE only in a
\* restore of that id; create, update, get and list requests change the
\* is_deleted flag of no record.
C13_Lifecycle ==
    [][/\ \A k \in (DOMAIN db'.volunteers) \ (DOMAIN db.volunteers) :
            /\ last'.op = "create"
            /\ last'.status_code = 201
            /\ last'.body.v.id = k
            /\ ~db'.volunteers[k].is_deleted
       /\ \A k \in DOMAIN db.volunteers :
            /\ k \in DOMAIN db'.volunteers
            /\ (~db.volunteers[k].is_deleted /\ db'.volunteers[k].is_deleted)
                 => (last'.op = "delete" /\ last'.req = k /\ last'.status_code = 200)
            /\ (db.volunteers[k].is_deleted /\ ~db'.volunteers[k].is_deleted)
                 => (last'.op = "restore" /\ last'.req = k /\ last'.status_code = 200)
            /\ last'.op \in {"create", "update", "get", "list"}
                 => db'.volunteers[k].is_deleted = db.volunteers[k].is_deleted]_vars

\* C13 happens: a record made by a create has been soft-deleted and restored
C13_Witness ==
    /\ last.op = "restore"
    /\ last.status_code = 200
    /\ last.req \notin DOMAIN FakeDatabase_init.volunteers
    /\ last.req \in DOMAIN snap
    /\ snap[last.req].is_deleted = FALSE
    /\ ~db.volunteers[last.req].is_deleted

\* C14: an update of an id that is not in the store or whose record is
\* soft-deleted is answered not-found (crud.update_volunteer returns None
\* without raising, the handler 404), whatever the payload holds, and
\* leaves the store as it was; in no step does a record that is deleted
\* before and after the step change a field.
C14_UpdateHiddenNotFound ==
    [][/\ (/\ last'.op = "update"
           /\ \/ last'.req.id \notin DOMAIN db.volunteers
              \/ db.volunteers[last'.req.id].is_deleted)
            => /\ db' = db
               /\ ParsedUpdate[last'.req.body].ok
                    => /\ last'.status_code = 404
                       /\ crud_update_volunteer(db, last'.req.id, LastUpdate(last'))
                            = [db |-> db, exc |-> None, ret |-> None]
       /\ \A k \in Deleted(db) :
            last'.op = "update" => db'.volunteers[k] = db.volunteers[k]]_vars

\* C14 happens: an update of a soft-deleted record, carrying the email of a
\* visible record, was answered 404
C14_Witness ==
    /\ last.op = "update"
    /\ last.status_code = 404
    /\ last.req.id \in Deleted(db)
    /\ last.req.id \in DOMAIN snap
    /\ TruthySeq(LastUpdate(last).email)
    /\ \E k \in Visible(db) : db.volunteers[k].email = LastUpdate(last).email.v

\* C15: an update of a visible record (the case in which crud.update_volunteer
\* reaches its email check) whose payload carries an email is refused as a
\* duplicate (409) exactly when another record, of a different id and with
\* is_deleted = FALSE, holds that email; an update that sends the record's
\* own current email succeeds.
C15_UpdateDuplicateExact ==
    [][(/\ last'.op = "update"
        /\ ParsedUpdate[last'.req.body].ok
        /\ ~LastUpdate(last').email.none
        /\ last'.req.id \in Visible(db))
         => /\ last'.status_code = 409
                 <=> \E k \in Visible(db) :
                        /\ k # last'.req.id
                        /\ db.volunteers[k].email = LastUpdate(last').email.v
            /\ db.volunteers[last'.req.id].email = LastUpdate(last').email.v
                 => last'.status_code = 200]_vars

\* the ids of a list of records, in the order of the list
IdsInOrder(vols) == [i \in 1..Len(vols) |-> vols[i].id]

StrictlyIncreasing(ids) ==
    \A i \in 1..Len(ids), j \in 1..Len(ids) : i < j => ids[i] < ids[j]

\* C16: get_all_volunteers, and so crud.get_volunteers, return the records
\* in insertion order, which before and after every store-changing call is
\* strictly increasing id order; the unpaged list is the visible records in
\* that order; a call (update, delete, restore, create) leaves every record
\* at the position it had, a created record going last.
C16_InsertionOrder ==
    [][LET before == IdsInOrder(FakeDatabase_get_all_volunteers(db))
           after  == IdsInOrder(FakeDatabase_get_all_volunteers(db'))
           listed == IdsInOrder(crud_get_volunteers(db', 0, Len(db'.order),
                                                    [k \in {} |-> None]))
       IN  /\ StrictlyIncreasing(before)
           /\ StrictlyIncreasing(after)
           /\ listed = SelectSeq(after, LAMBDA k : ~db'.volunteers[k].is_deleted)
           /\ Len(after) >= Len(before)
           /\ \A i \in 1..Len(before) : after[i] = before[i]]_vars

\* C16 happens: with a record created, a record in the middle updated and
\* the seeded deleted record restored, the list is in id order
C16_Witness ==
    /\ nops = 3
    /\ \E k \in DOMAIN db.volunteers : k \notin DOMAIN FakeDatabase_init.volunteers
    /\ \E k \in Visible(FakeDatabase_init) :
          /\ ~db.volunteers[k].is_deleted
          /\ db.volunteers[k] # FakeDatabase_init.volunteers[k]
          /\ \E j \in DOMAIN db.volunteers : j < k
    /\ \E k \in Deleted(FakeDatabase_init) : ~db.volunteers[k].is_deleted
    /\ StrictlyIncreasing(IdsInOrder(crud_get_volunteers(db, 0, Len(db.order),
                                                         [k \in {} |-> None])))

\* both worker threads have answered their POST with 201
BothCreated == \A t \in Threads : threads[t].pc = "done" /\ threads[t].status_code = 201

\* C17: when two create requests run interleaved and both succeed, they
\* were given different ids and both records are in the store: no insert
\* is lost or overwritten.
C17_ConcurrentCreatesKept ==
    BothCreated
      => /\ \A t, u \in Threads : t # u => threads[t].body.v.id # threads[u].body.v.id
         /\ \A t \in Threads :
               /\ threads[t].body.v.id \in DOMAIN db.volunteers
               /\ to_model(db.volunteers[threads[t].body.v.id]) = threads[t].body.v
         /\ Cardinality(DOMAIN db.volunteers)
               = Cardinality(DOMAIN FakeDatabase_init.volunteers) + Cardinality(Threads)

\* C18: when two create requests with the same email run interleaved, the
\* email check and the insert being separate steps, at most one of them
\* succeeds, and no two visible records hold the same email.
C18_ConcurrentSameEmail ==
    /\ \A t, u \in Threads :
          (/\ t # u
           /\ threads[t].pc = "done"
           /\ threads[u].pc = "done"
           /\ threads[t].volunteer.v.email = threads[u].volunteer.v.email)
            => ~(threads[t].status_code = 201 /\ threads[u].status_code = 201)
    /\ \A i \in Visible(db), j \in Visible(db) :
          i # j => db.volunteers[i].email # db.volunteers[j].email

\* the keys of d are 1 .. _next_id - 1 and each key holds the record of that id
WellKeyed(d) ==
    /\ DOMAIN d.volunteers = 1..(d.next_id - 1)
    /\ \A k \in DOMAIN d.volunteers : d.volunteers[k].id = k

\* C19: starting from the seeded store (ids 1..5), before and after every
\* request the keys of the store are exactly 1 .. _next_id - 1 and each key
\* holds a record whose id is the key; no key is ever removed; a
\* successful create adds exactly one key, the old _next_id, and every
\* other request leaves the keys and the counter as they were.
C19_StoreStructure ==
    [][/\ WellKeyed(db)
       /\ WellKeyed(db')
       /\ (DOMAIN db.volunteers) \subseteq (DOMAIN db'.volunteers)
       /\ IF last'.op = "create" /\ last'.status_code = 201
          THEN /\ DOMAIN db'.volunteers = (DOMAIN db.volunteers) \cup {db.next_id}
               /\ db.next_id \notin DOMAIN db.volunteers
               /\ db'.next_id = db.next_id + 1
          ELSE /\ DOMAIN db'.volunteers = DOMAIN db.volunteers
               /\ db'.next_id = db.next_id]_vars

\* C19 happens: two records were created and a created record was
\* soft-deleted; it is still in the store
C19_Witness ==
    /\ DOMAIN FakeDatabase_init.volunteers = 1..5
    /\ db.next_id = FakeDatabase_init.next_id + 2
    /\ last.op = "delete"
    /\ last.status_code = 200
    /\ last.req \notin DOMAIN FakeDatabase_init.volunteers
    /\ last.req \in Deleted(db)

\* C20: a request that fails (a create refused as duplicate, an update
\* refused as duplicate or not-found, a delete or a restore answered
\* not-found, or a payload the schema rejects) leaves the store, the id
\* counter included, exactly as it was; a refused create takes no id.
C20_FailureLeavesStore ==
    [][(/\ last'.op \in {"create", "update", "delete", "restore"}
        /\ last'.status_code \notin {200, 201})
         => /\ db' = db
            /\ db'.next_id = db.next_id
            /\ last'.status_code \in {404, 409, 422}
            /\ (last'.op = "create" /\ ParsedCreate[last'.req].ok)
                 => /\ last'.status_code = 409
                    /\ crud_create_volunteer(db, LastCreate(last'), Today).db = db]_vars

\* C20 happens: after a create succeeded, a create with the same email was
\* refused with 409 and the id counter is one past the created record's id
C20_Witness ==
    /\ last.op = "create"
    /\ last.status_code = 409
    /\ db.next_id = FakeDatabase_init.next_id + 1
    /\ \E k \in Visible(db) :
          /\ k \notin DOMAIN FakeDatabase_init.volunteers
          /\ db.volunteers[k].email = LastCreate(last).email
          /\ db.next_id = k + 1

\* the pages of k records from offset skip on, one after another, for every
\* offset up to the number of records of the store
RECURSIVE ConcatPages(_, _, _, _)
ConcatPages(d, k, filters, skip) ==
    IF skip > Len(d.order) THEN <<>>
    ELSE crud_get_volunteers(d, skip, k, filters)
           \o ConcatPages(d, k, filters, skip + k)

\* C21: on one store, for every page size k >= 1 and every filter, the
\* pages crud.get_volunteers returns for skip = 0, k, 2k, ... put one after
\* another are the whole filtered list of visible records (what one page
\* long enough returns): no record comes twice and none is left out.
C21_PagesPartition ==
    \A k \in 1..MaxPage, filters \in CrudFilters :
        LET pages == ConcatPages(db, k, filters, 0)
            whole == crud_get_volunteers(db, 0, Len(db.order), filters)
        IN  /\ pages = whole
            /\ pages = filtered_volunteers(db, filters)
            /\ \A i \in 1..Len(pages), j \in 1..Len(pages) :
                  i # j => pages[i].id # pages[j].id
            /\ Ids(pages) \subseteq Visible(db)

\* C21 happens: on a store changed by a call, some filter selects more
\* records than a page of some size k > 1 holds, and not a multiple of k,
\* so the pages are full ones, a short one and an empty one
C21_Witness ==
    /\ db # FakeDatabase_init
    /\ \E k \in 2..MaxPage, filters \in CrudFilters :
          LET n == Len(filtered_volunteers(db, filters))
          IN  /\ n > k
              /\ n % k # 0
              /\ Len(crud_get_volunteers(db, 0, k, filters)) = k
              /\ Len(crud_get_volunteers(db, (n \div k) * k, k, filters)) = n % k
              /\ crud_get_volunteers(db, ((n \div k) + 1) * k, k, filters) = <<>>
              /\ Len(ConcatPages(db, k, filters, 0)) = n

\* C22: a GET of one record or of the list, whatever its arguments and its
\* answer (200, 404, 422), leaves the store as it was: no field of any
\* record, no is_deleted flag, not the key order and not the id counter
\* change.
C22_ReadsLeaveStore ==
    [][(last'.op \in {"get", "list"})
         => /\ db'.next_id = db.next_id
            /\ db'.order = db.order
            /\ DOMAIN db'.volunteers = DOMAIN db.volunteers
            /\ \A k \in DOMAIN db.volunteers, a \in VolunteerAttrs :
                  db'.volunteers[k][a] = db.volunteers[k][a]
            /\ db' = db
            /\ snap' = snap]_vars

\* C22 happens: after a create and a DELETE, a list request returned records
C22_Witness ==
    /\ last.op = "list"
    /\ last.status_code = 200
    /\ last.body.v # <<>>
    /\ DOMAIN snap # {}
    /\ db.next_id > FakeDatabase_init.next_id

====
